---- MODULE Spec2Model ----
(***************************************************************************)
(* Model of the client-side application context (AppContext.tsx): the      *)
(* products / sales / notifications / currentUser snapshots held in React  *)
(* state, the token in localStorage, and the asynchronous handlers that    *)
(* talk to the remote API.                                                 *)
(*                                                                         *)
(* React semantics that the model keeps:                                   *)
(*  - a handler reads the state values of the render it was created in;    *)
(*    an async handler keeps those values (its closure) across its await,  *)
(*    so the request in flight carries the snapshots it will write from;   *)
(*  - setX(v) replaces the state by v; several setX calls in one           *)
(*    continuation leave the value of the last one;                        *)
(*  - an effect with dependency [currentUser] runs after every commit in   *)
(*    which currentUser changed identity.                                  *)
(* Timestamps (date, updatedAt) are left out: no handler reads them.       *)
(***************************************************************************)
EXTENDS Integers, Sequences, FiniteSets, TLC

\* ------------------------------------------------------------- bounds
MaxPending == 2      \* requests awaiting their response at one time
MaxCalls   == 2      \* calls of asynchronous handlers (login, product and sale writes)

\* ------------------------------------------------------------- domains
ProductIds == {"p1", "p2"}
UnknownId  == "px"                      \* a productId no product has
Users      == {"u1", "u2"}
NoToken    == "none"                    \* localStorage.getItem('token') === null
NoUser     == "null"                    \* currentUser === null
Outcomes   == {"ok", "status", "error"} \* response.ok, !response.ok, fetch threw

Product(i, q, t) == [id |-> i, quantity |-> q, threshold |-> t]
NoProduct == Product("", 0, 0)

\* The collections the remote API may answer GET /products and GET /sales with.
RemoteProducts == { << Product("p1", 4, 2), Product("p2", 2, 1) >> }
RemoteSales == { << [id |-> 0, products |-> << [productId |-> "p1", quantity |-> 1] >>] >> }

\* What the product form can submit.
ProductInputs == { Product("p1", 3, 1), Product("p2", 1, 1) }

\* The sale requests the sale form submits: one or two line items.
Item(i, q) == [productId |-> i, quantity |-> q]
SaleInputs ==
    { << Item("p1", 1) >>,                  \* p1 stays above its threshold
      << Item("p1", 2) >>,                  \* p1 reaches its threshold
      << Item("p2", 2) >>,                  \* p2 reaches zero
      << Item(UnknownId, 1) >>,             \* no such product
      << Item("p1", 1), Item("p1", 1) >>,   \* the same product twice
      << Item("p1", 2), Item("p2", 1) >>,   \* two products, each reaching its threshold
      << Item(UnknownId, 2), Item("p2", 2) >> }

VARIABLES
    products,       \* useState<Product[]>
    sales,          \* useState<Sale[]>
    notifications,  \* useState<Notification[]>
    currentUser,    \* useState<User | null>
    token,          \* localStorage 'token'
    inflight,       \* requests awaiting their response, with their closures
    nextId,         \* next id generateId() returns
    nextSaleId,     \* next id the remote API gives a sale
    mounted,        \* the mount effects have run
    calls,          \* asynchronous handler calls made so far
    cleared,        \* ids of the notifications a clearNotifications call removed
    last,           \* the step taken last: handler, outcome, argument, return value
    users,          \* server: rows of the users table
    profiles,       \* server: rows of public.profiles
    sqlMode,        \* server: whether the database runs in strict SQL mode
    reply           \* server: the response the last route call sent

vars == << products, sales, notifications, currentUser, token, inflight,
           nextId, nextSaleId, mounted, calls, cleared, last,
           users, profiles, sqlMode, reply >>

state == << products, sales, notifications, currentUser, token >>
\* The server's tables, which no handler of the browser context writes.
server == << users, profiles, sqlMode, reply >>

\* ------------------------------------------------------------- requests
\* A request in flight: its kind, the token read when it was sent, the state values
\* its handler closed over, and the handler's argument.
Req(kind, tok) ==
    [kind |-> kind, token |-> tok, products |-> << >>, sales |-> << >>,
     notifications |-> << >>, product |-> NoProduct, id |-> "",
     saleData |-> << >>]

\* The step taken last: the handler, how its request ended, the notification id it
\* was called with (markNotificationAsRead) and what it returned (login).
Step(op, outcome, arg, result) ==
    [op |-> op, outcome |-> outcome, arg |-> arg, result |-> result]

RemoveAt(s, i) == SubSeq(s, 1, i - 1) \o SubSeq(s, i + 1, Len(s))

\* The API answers a request with a success status only when it carries a token.
Authorized(tok) == tok /= NoToken

\* ------------------------------------------------------------- server tables
\* role ENUM('admin', 'employee') of users; CHECK (role IN ('admin', 'employee')) of
\* public.profiles.
Roles == {"admin", "employee"}
Emails == {"admin@example.com", "a@example.com", "b@example.com"}
AuthIds == {"a1", "a2"}
SqlModes == {"strict", "lenient"}

UserRow(id, email, role) == [id |-> id, email |-> email, role |-> role]
\* The migration's default admin user.
SeedUsers == { UserRow(0, "admin@example.com", "admin") }

Reply(route, status, email, role) ==
    [route |-> route, status |-> status, email |-> email, role |-> role]
NoReply == Reply("none", 0, "", "")

\* ------------------------------------------------------------- fetchData effect
\* The [currentUser] effect: reads the token and, if there is one, starts GET /products.
FetchDataStart(tok) ==
    IF tok = NoToken THEN << >>
    ELSE << Req("fetchProducts", tok) >>

Init ==
    /\ products = << >>
    /\ sales = << >>
    /\ notifications = << >>
    /\ currentUser = NoUser
    /\ token \in {NoToken, "t1"}
    /\ inflight = << >>
    /\ nextId = 1
    /\ nextSaleId = 1
    /\ mounted = FALSE
    /\ cleared = {}
    /\ calls = 0
    /\ last = Step("init", "ok", 0, FALSE)
    /\ users = SeedUsers
    /\ profiles = {}
    /\ sqlMode = "strict"
    /\ reply = NoReply

\* ------------------------------------------------------------- session
\* Both mount effects: restore the session if a token is stored, and fetchData.
ProfileStart(tok) ==
    IF tok = NoToken THEN << >>
    ELSE << Req("profile", tok) >>

Mount ==
    /\ ~mounted
    /\ mounted' = TRUE
    /\ inflight' = ProfileStart(token) \o FetchDataStart(token)
    /\ last' = Step("mount", "ok", 0, FALSE)
    /\ UNCHANGED << server, calls, state, nextId, nextSaleId, cleared >>

\* The token the API signs for a user, and the user a token resolves to.
TokenOf(u) == IF u = "u1" THEN "t1" ELSE "t2"
UserOf(tok) == IF tok = "t1" THEN "u1" ELSE "u2"

\* login: POST /auth/login is sent; the handler awaits the response.
LoginCall ==
    /\ mounted
    /\ Len(inflight) < MaxPending
    /\ calls < MaxCalls
    /\ calls' = calls + 1
    /\ inflight' = Append(inflight, Req("login", NoToken))
    /\ last' = Step("loginCall", "ok", 0, FALSE)
    /\ UNCHANGED << server, mounted, state, nextId, nextSaleId, cleared >>

\* What login's continuation leaves in localStorage, in currentUser, and returns.
\* Mutant: the token of the response stored whatever the status.
LoginTokenAlwaysStored(outcome, tok, u) == IF outcome = "error" THEN tok ELSE TokenOf(u)

LoginToken(outcome, tok, u) == IF outcome = "ok" THEN TokenOf(u) ELSE tok
LoginUser(outcome, cur, u) == IF outcome = "ok" THEN u ELSE cur
LoginResult(outcome) == outcome = "ok"

LoginResp(i, outcome, u) ==
    /\ inflight[i].kind = "login"
    /\ token' = LoginToken(outcome, token, u)
    /\ currentUser' = LoginUser(outcome, currentUser, u)
    /\ inflight' = RemoveAt(inflight, i) \o
                   (IF outcome = "ok" THEN FetchDataStart(token') ELSE << >>)
    /\ last' = Step("login", outcome, 0, LoginResult(outcome))
    /\ UNCHANGED << server, calls, mounted, products, sales, notifications, nextId, nextSaleId, cleared >>

\* logout: synchronous; the effect that follows finds no token and returns.
LogoutToken(tok) == NoToken
LogoutUser(cur) == NoUser

Logout ==
    /\ mounted
    /\ token' = LogoutToken(token)
    /\ currentUser' = LogoutUser(currentUser)
    /\ last' = Step("logout", "ok", 0, FALSE)
    /\ UNCHANGED << server, calls, mounted, products, sales, notifications, inflight, nextId, nextSaleId, cleared >>

\* fetchUserProfile's continuation.
\* Mutant: the catch branch forgets localStorage.removeItem('token').
ProfileTokenKeptOnError(outcome, tok) == IF outcome = "status" THEN NoToken ELSE tok

ProfileToken(outcome, tok) == IF outcome = "ok" THEN tok ELSE NoToken
ProfileUser(outcome, reqTok) == IF outcome = "ok" THEN UserOf(reqTok) ELSE NoUser

ProfileResp(i, outcome) ==
    /\ inflight[i].kind = "profile"
    /\ token' = ProfileToken(outcome, token)
    /\ currentUser' = ProfileUser(outcome, inflight[i].token)
    /\ inflight' = RemoveAt(inflight, i) \o
                   (IF outcome = "ok" THEN FetchDataStart(token') ELSE << >>)
    /\ last' = Step("profile", outcome, 0, FALSE)
    /\ UNCHANGED << server, calls, mounted, products, sales, notifications, nextId, nextSaleId, cleared >>

\* fetchData's two continuations: GET /products answered, then GET /sales answered.
\* Mutant: the fetched products merged into the snapshot instead of replacing it.
FetchedProductsMerged(outcome, cur, data) == IF outcome = "ok" THEN cur \o data ELSE cur

FetchedProducts(outcome, cur, data) == IF outcome = "ok" THEN data ELSE cur
FetchedSales(outcome, cur, data) == IF outcome = "ok" THEN data ELSE cur

FetchProductsResp(i, outcome, data) ==
    /\ inflight[i].kind = "fetchProducts"
    /\ products' = FetchedProducts(outcome, products, data)
    /\ inflight' = RemoveAt(inflight, i) \o
                   (IF outcome = "error" THEN << >>
                    ELSE << Req("fetchSales", inflight[i].token) >>)
    /\ last' = Step("fetchProducts", outcome, 0, FALSE)
    /\ UNCHANGED << server, calls, mounted, sales, notifications, currentUser, token, nextId, nextSaleId, cleared >>

FetchSalesResp(i, outcome, data) ==
    /\ inflight[i].kind = "fetchSales"
    /\ sales' = FetchedSales(outcome, sales, data)
    /\ inflight' = RemoveAt(inflight, i)
    /\ last' = Step("fetchSales", outcome, 0, FALSE)
    /\ UNCHANGED << server, calls, mounted, products, notifications, currentUser, token, nextId, nextSaleId, cleared >>

\* ------------------------------------------------------------- products
Ids(ps) == { ps[k].id : k \in DOMAIN ps }

\* addProduct: the product the API will answer with carries the id it assigns.
AddProductCall(p) ==
    /\ mounted
    /\ Len(inflight) < MaxPending
    /\ calls < MaxCalls
    /\ calls' = calls + 1
    /\ p.id \notin Ids(products)
    /\ inflight' = Append(inflight, [Req("addProduct", token) EXCEPT
                                        !.products = products, !.product = p])
    /\ last' = Step("addProductCall", "ok", 0, FALSE)
    /\ UNCHANGED << server, mounted, state, nextId, nextSaleId, cleared >>

AddedProducts(outcome, cur, req) ==
    IF outcome = "ok" THEN Append(req.products, req.product) ELSE cur

UpdateProductCall(p) ==
    /\ mounted
    /\ Len(inflight) < MaxPending
    /\ calls < MaxCalls
    /\ calls' = calls + 1
    /\ inflight' = Append(inflight, [Req("updateProduct", token) EXCEPT
                                        !.products = products, !.product = p])
    /\ last' = Step("updateProductCall", "ok", 0, FALSE)
    /\ UNCHANGED << server, mounted, state, nextId, nextSaleId, cleared >>

UpdatedProducts(outcome, cur, req) ==
    IF outcome = "ok"
    THEN [k \in DOMAIN req.products |->
            IF req.products[k].id = req.product.id THEN req.product ELSE req.products[k]]
    ELSE cur

DeleteProductCall(id) ==
    /\ mounted
    /\ Len(inflight) < MaxPending
    /\ calls < MaxCalls
    /\ calls' = calls + 1
    /\ inflight' = Append(inflight, [Req("deleteProduct", token) EXCEPT
                                        !.products = products, !.id = id])
    /\ last' = Step("deleteProductCall", "ok", 0, FALSE)
    /\ UNCHANGED << server, mounted, state, nextId, nextSaleId, cleared >>

\* Mutant: the filter applied without looking at response.ok.
DeletedProductsUnchecked(outcome, cur, req) ==
    SelectSeq(req.products, LAMBDA q : q.id /= req.id)

DeletedProducts(outcome, cur, req) ==
    IF outcome = "ok" THEN SelectSeq(req.products, LAMBDA q : q.id /= req.id) ELSE cur

\* The continuation of addProduct, updateProduct or deleteProduct.
ProductsAfter(outcome, cur, req) ==
    CASE req.kind = "addProduct"    -> AddedProducts(outcome, cur, req)
      [] req.kind = "updateProduct" -> UpdatedProducts(outcome, cur, req)
      [] req.kind = "deleteProduct" -> DeletedProducts(outcome, cur, req)

ProductResp(i, outcome) ==
    /\ inflight[i].kind \in {"addProduct", "updateProduct", "deleteProduct"}
    /\ outcome = "ok" => Authorized(inflight[i].token)
    /\ products' = ProductsAfter(outcome, products, inflight[i])
    /\ inflight' = RemoveAt(inflight, i)
    /\ last' = Step(inflight[i].kind, outcome, 0, FALSE)
    /\ UNCHANGED << server, calls, mounted, sales, notifications, currentUser, token, nextId, nextSaleId, cleared >>

\* ------------------------------------------------------------- sales
\* updatedProducts.findIndex((p) => p.id === item.productId); 0 stands for -1.
FindIndex(ps, pid) ==
    IF \E k \in DOMAIN ps : ps[k].id = pid
    THEN CHOOSE k \in DOMAIN ps :
            ps[k].id = pid /\ \A j \in 1..(k - 1) : ps[j].id /= pid
    ELSE 0

\* Mutant: the new quantity clamped at zero.
NewQuantityClamped(product, item) ==
    IF product.quantity - item.quantity < 0 THEN 0 ELSE product.quantity - item.quantity

NewQuantity(product, item) == product.quantity - item.quantity

\* Which branch of the stock check a new quantity takes.
AlertKind(product, newQuantity) ==
    IF newQuantity <= product.threshold /\ newQuantity > 0 THEN "warning"
    ELSE IF newQuantity <= 0 THEN "error"
    ELSE "none"

\* The notification object either branch builds (the product's name is its id here).
Notification(id, kind, product, newQuantity) ==
    IF kind = "warning"
    THEN [id |-> id, title |-> "Low Stock Alert", type |-> "warning", read |-> FALSE,
          message |-> [name |-> product.id, text |-> "is running low on stock",
                       remaining |-> newQuantity]]
    ELSE [id |-> id, title |-> "Out of Stock Alert", type |-> "error", read |-> FALSE,
          message |-> [name |-> product.id, text |-> "is now out of stock!",
                       remaining |-> 0]]

\* setNotifications([notification, ...notifications]) with the closure's notifications.
Prepended(notification, ns) == << notification >> \o ns

\* saleData.products.forEach(...): st.products is updatedProducts, st.sets the values
\* handed to setNotifications so far, st.id the next id generateId() returns.
RECURSIVE SaleFold(_, _, _, _)
SaleFold(items, k, ns, st) ==
    IF k > Len(items) THEN st
    ELSE LET item == items[k]
             productIndex == FindIndex(st.products, item.productId)
         IN  IF productIndex = 0 THEN SaleFold(items, k + 1, ns, st)
             ELSE LET product == st.products[productIndex]
                      newQuantity == NewQuantity(product, item)
                      kind == AlertKind(product, newQuantity)
                  IN  SaleFold(items, k + 1, ns,
                        [products |-> [st.products EXCEPT
                                          ![productIndex].quantity = newQuantity],
                         sets |-> IF kind = "none" THEN st.sets
                                  ELSE Append(st.sets,
                                         Prepended(Notification(st.id, kind, product,
                                                                newQuantity), ns)),
                         id |-> IF kind = "none" THEN st.id ELSE st.id + 1])

SaleEffect(req, id) ==
    SaleFold(req.saleData, 1, req.notifications,
             [products |-> req.products, sets |-> << >>, id |-> id])

\* The state a sequence of setX calls leaves: the last value set, if any.
LastSet(cur, sets) == IF sets = << >> THEN cur ELSE sets[Len(sets)]

NewSale(id, saleData) == [id |-> id, products |-> saleData]

AddSaleCall(saleData) ==
    /\ mounted
    /\ Len(inflight) < MaxPending
    /\ calls < MaxCalls
    /\ calls' = calls + 1
    /\ inflight' = Append(inflight, [Req("addSale", token) EXCEPT
                                        !.products = products, !.sales = sales,
                                        !.notifications = notifications,
                                        !.saleData = saleData])
    /\ last' = Step("addSaleCall", "ok", 0, FALSE)
    /\ UNCHANGED << server, mounted, state, nextId, nextSaleId, cleared >>

SalesAfter(outcome, cur, req, id) ==
    IF outcome = "ok" THEN Append(req.sales, NewSale(id, req.saleData)) ELSE cur
SaleProductsAfter(outcome, cur, req, id) ==
    IF outcome = "ok" THEN SaleEffect(req, id).products ELSE cur
SaleNotificationsAfter(outcome, cur, req, id) ==
    IF outcome = "ok" THEN LastSet(cur, SaleEffect(req, id).sets) ELSE cur

AddSaleResp(i, outcome) ==
    /\ inflight[i].kind = "addSale"
    /\ outcome = "ok" => Authorized(inflight[i].token)
    /\ sales' = SalesAfter(outcome, sales, inflight[i], nextSaleId)
    /\ products' = SaleProductsAfter(outcome, products, inflight[i], nextId)
    /\ notifications' = SaleNotificationsAfter(outcome, notifications, inflight[i], nextId)
    /\ nextId' = IF outcome = "ok" THEN SaleEffect(inflight[i], nextId).id ELSE nextId
    /\ nextSaleId' = IF outcome = "ok" THEN nextSaleId + 1 ELSE nextSaleId
    /\ inflight' = RemoveAt(inflight, i)
    /\ last' = Step("addSale", outcome, 0, FALSE)
    /\ UNCHANGED << server, calls, mounted, currentUser, token, cleared >>

\* ------------------------------------------------------------- notifications
\* Mutant: the read flag toggled instead of set.
MarkReadToggled(ns, id) ==
    [k \in DOMAIN ns |-> IF ns[k].id = id THEN [ns[k] EXCEPT !.read = ~@] ELSE ns[k]]

MarkRead(ns, id) ==
    [k \in DOMAIN ns |-> IF ns[k].id = id THEN [ns[k] EXCEPT !.read = TRUE] ELSE ns[k]]

MarkNotificationAsRead(id) ==
    /\ mounted
    /\ notifications' = MarkRead(notifications, id)
    /\ last' = Step("markNotificationAsRead", "ok", id, FALSE)
    /\ UNCHANGED << server, calls, mounted, products, sales, currentUser, token, inflight, nextId, nextSaleId,
                    cleared >>

Cleared(ns) == << >>

ClearNotifications ==
    /\ mounted
    /\ notifications' = Cleared(notifications)
    /\ cleared' = cleared \cup { notifications[k].id : k \in DOMAIN notifications }
    /\ last' = Step("clearNotifications", "ok", 0, FALSE)
    /\ UNCHANGED << server, calls, mounted, products, sales, currentUser, token, inflight, nextId, nextSaleId >>

\* ------------------------------------------------------------- specification
Next ==
    \/ Mount
    \/ LoginCall
    \/ \E i \in DOMAIN inflight, o \in Outcomes, u \in Users : LoginResp(i, o, u)
    \/ Logout
    \/ \E i \in DOMAIN inflight, o \in Outcomes : ProfileResp(i, o)
    \/ \E i \in DOMAIN inflight, o \in Outcomes, d \in RemoteProducts :
          FetchProductsResp(i, o, d)
    \/ \E i \in DOMAIN inflight, o \in Outcomes, d \in RemoteSales : FetchSalesResp(i, o, d)
    \/ \E p \in ProductInputs : AddProductCall(p)
    \/ \E p \in ProductInputs : UpdateProductCall(p)
    \/ \E id \in ProductIds : DeleteProductCall(id)
    \/ \E i \in DOMAIN inflight, o \in Outcomes : ProductResp(i, o)
    \/ \E sd \in SaleInputs : AddSaleCall(sd)
    \/ \E i \in DOMAIN inflight, o \in Outcomes : AddSaleResp(i, o)
    \/ \E id \in 0..(nextId - 1) : MarkNotificationAsRead(id)
    \/ ClearNotifications

Spec == Init /\ [][Next]_vars

\* ------------------------------------------------------------- server routes
\* The browser context's variables, which no server route writes.
browser == << state, inflight, nextId, nextSaleId, mounted, calls, cleared, last >>

\* INSERT INTO users: the row is refused when the email is taken (UNIQUE) and, in
\* strict SQL mode, when no password is given (NOT NULL, no default) or the role is
\* not a member of the ENUM.
InsertFails(mode, rows, email, role, withPassword) ==
    \/ \E u \in rows : u.email = email
    \/ mode = "strict" /\ (~withPassword \/ role \notin Roles)

\* What the ENUM column stores: a member as given; outside strict mode anything
\* else as the empty error value ''.
EnumStored(role) == IF role \in Roles THEN role ELSE ""

\* POST /google-login with a verified Google token for `email`.
GoogleLogin(email) ==
    LET found == { u \in users : u.email = email }
        fails == InsertFails(sqlMode, users, email, "user", FALSE)
        rows == IF found /= {} \/ fails THEN users
                ELSE users \cup { UserRow(Cardinality(users), email, EnumStored("user")) }
        user == { u \in rows : u.email = email }
    IN  /\ users' = rows
        /\ reply' = IF user = {} THEN Reply("google-login", 500, email, "")
                    ELSE Reply("google-login", 200, email, (CHOOSE u \in user : TRUE).role)
        /\ UNCHANGED << profiles, sqlMode, browser >>

\* PUT /profile by the user with this id: UPDATE users SET name, email WHERE id.
UpdateProfile(id, email) ==
    LET taken == \E u \in users : u.email = email /\ u.id /= id
    IN  /\ \E u \in users : u.id = id
        /\ users' = IF taken THEN users
                    ELSE { IF u.id = id THEN [u EXCEPT !.email = email] ELSE u : u \in users }
        /\ reply' = Reply("put-profile", IF taken THEN 500 ELSE 200, email, "")
        /\ UNCHANGED << profiles, sqlMode, browser >>

\* handle_new_user: the trigger inserts the profile of a new auth.users row; role
\* takes the column default.
HandleNewUser(id) ==
    /\ \A pr \in profiles : pr.id /= id
    /\ profiles' = profiles \cup { [id |-> id, role |-> "employee"] }
    /\ UNCHANGED << users, sqlMode, reply, browser >>

\* "Users can update their own profile": the CHECK refuses a role outside Roles.
UpdateOwnProfile(id, role) ==
    /\ \E pr \in profiles : pr.id = id
    /\ profiles' = IF role \notin Roles THEN profiles
                   ELSE { IF pr.id = id THEN [pr EXCEPT !.role = role] ELSE pr
                          : pr \in profiles }
    /\ UNCHANGED << users, sqlMode, reply, browser >>

InitAuth ==
    /\ products = << >> /\ sales = << >> /\ notifications = << >>
    /\ currentUser = NoUser /\ token = NoToken
    /\ inflight = << >>
    /\ nextId = 1 /\ nextSaleId = 1
    /\ mounted = FALSE /\ cleared = {} /\ calls = 0
    /\ last = Step("init", "ok", 0, FALSE)
    /\ users = SeedUsers
    /\ profiles = {}
    /\ sqlMode \in SqlModes
    /\ reply = NoReply

NextAuth ==
    \/ \E e \in Emails : GoogleLogin(e)
    \/ \E id \in 0..Cardinality(Emails), e \in Emails : UpdateProfile(id, e)
    \/ \E id \in AuthIds : HandleNewUser(id)
    \/ \E id \in AuthIds, r \in Roles \cup {"user"} : UpdateOwnProfile(id, r)

SpecAuth == InitAuth /\ [][NextAuth]_vars

\* ------------------------------------------------------------- claims
\* The step is the continuation of request i of the given kind, ended as `outcome`.
Answered(i, kind, outcome) ==
    /\ inflight[i].kind = kind
    /\ last'.op = kind
    /\ last'.outcome = outcome
    /\ SubSeq(inflight', 1, Len(inflight) - 1) = RemoveAt(inflight, i)

\* The quantity the first j line items sell of product pid.
RECURSIVE Sold(_, _, _)
Sold(items, pid, j) ==
    IF j = 0 THEN 0
    ELSE Sold(items, pid, j - 1) +
         (IF items[j].productId = pid THEN items[j].quantity ELSE 0)

\* The alert line item j of a sale calls for, given the products before the call:
\* "warning" when the product's quantity after the item is in 1..threshold,
\* "error" when it is <= 0, "none" otherwise or when no product has the id.
Expected(ps, items, j) ==
    LET hit == { k \in DOMAIN ps : ps[k].id = items[j].productId }
    IN  IF hit = {} THEN "none"
        ELSE LET P == ps[CHOOSE k \in hit : TRUE]
                 q == P.quantity - Sold(items, P.id, j)
             IN  IF 0 < q /\ q <= P.threshold THEN "warning"
                 ELSE IF q <= 0 THEN "error" ELSE "none"

Alerts(ps, items, pid, type) ==
    { j \in DOMAIN items : items[j].productId = pid /\ Expected(ps, items, j) = type }

TitleOf(type) == IF type = "warning" THEN "Low Stock Alert" ELSE "Out of Stock Alert"

\* C1: an acknowledged addSale adds, for every line item whose product ends in
\* 1..threshold, exactly one 'warning' notification "Low Stock Alert" for that product,
\* for every line item whose product ends <= 0 exactly one 'error' notification
\* "Out of Stock Alert", and nothing else: k alerts leave exactly k more notifications
\* than the collection held when the sale was requested.
C1_OneNotificationPerAlert ==
    [][\A i \in DOMAIN inflight :
         Answered(i, "addSale", "ok") =>
           LET r == inflight[i]
               fresh == { k \in DOMAIN notifications' : notifications'[k].id >= nextId }
           IN  /\ \A pid \in ProductIds, type \in {"warning", "error"} :
                     Cardinality({ k \in fresh :
                                     /\ notifications'[k].message.name = pid
                                     /\ notifications'[k].type = type
                                     /\ notifications'[k].title = TitleOf(type) })
                       = Cardinality(Alerts(r.products, r.saleData, pid, type))
               /\ Len(notifications') =
                     Len(r.notifications) +
                     Cardinality({ j \in DOMAIN r.saleData :
                                     Expected(r.products, r.saleData, j) /= "none" })
      ]_vars

\* C2: a notification that is in the collection with read = true is not in the
\* collection with read = false after the next step, whatever that step is.
C2_ReadFlagMonotonic ==
    [][\A k \in DOMAIN notifications, m \in DOMAIN notifications' :
         (notifications[k].id = notifications'[m].id /\ notifications[k].read)
            => notifications'[m].read
      ]_vars

\* C3: after an acknowledged addSale the products are those of before the call, each
\* with its quantity lowered by the summed quantities of the sale's line items naming
\* it (no clamping at zero); line items naming no product change nothing.
C3_QuantitiesDecremented ==
    [][\A i \in DOMAIN inflight :
         Answered(i, "addSale", "ok") =>
           LET r == inflight[i]
           IN  /\ Len(products') = Len(r.products)
               /\ \A k \in DOMAIN r.products :
                     products'[k] =
                       [r.products[k] EXCEPT !.quantity =
                          r.products[k].quantity -
                          Sold(r.saleData, r.products[k].id, Len(r.saleData))]
      ]_vars

\* A sale was acknowledged and left a product with a negative quantity, while another
\* product kept a positive one.
C3_Witness ==
    /\ last.op = "addSale" /\ last.outcome = "ok"
    /\ \E k \in DOMAIN products : products[k].quantity < 0
    /\ \E k \in DOMAIN products : products[k].quantity > 0

Writes == {"addProduct", "updateProduct", "deleteProduct", "addSale"}

\* C4: addProduct, updateProduct, deleteProduct and addSale change nothing when they are
\* called, and nothing when their request ends with a non-success status or a network
\* error: products, sales, notifications, currentUser and the token stay as they were.
C4_FailureLeavesStateUnchanged ==
    [][/\ last'.op \in {"addProductCall", "updateProductCall", "deleteProductCall",
                        "addSaleCall"} => state' = state
       /\ (last'.op \in Writes /\ last'.outcome /= "ok") => state' = state
      ]_vars

\* A write has just failed in a state with products, sales, a notification and a user.
C4_Witness ==
    /\ last.op \in Writes /\ last.outcome = "error"
    /\ products /= << >> /\ sales /= << >> /\ notifications /= << >>
    /\ currentUser /= NoUser /\ token /= NoToken

\* C5: the step that follows a logout (the answer to a request already in flight
\* included) finds and leaves currentUser null and the token absent.
C5_LogoutStays ==
    [][last.op = "logout" =>
         /\ currentUser = NoUser /\ token = NoToken
         /\ currentUser' = NoUser /\ token' = NoToken
      ]_vars

\* C6: at mount no request is sent and the session stays anonymous when no token is
\* stored, and the profile is requested when one is; a successful profile response sets
\* currentUser to the user of the request's token and keeps the stored token; a
\* non-success status or a network error removes the token and sets currentUser to null.
C6_SessionRestore ==
    [][/\ last'.op = "mount" =>
            IF token = NoToken
            THEN inflight' = << >> /\ currentUser' = NoUser /\ token' = NoToken
            ELSE /\ \E k \in DOMAIN inflight' :
                       inflight'[k].kind = "profile" /\ inflight'[k].token = token
                 /\ token' = token
       /\ \A i \in DOMAIN inflight :
            /\ Answered(i, "profile", "ok") =>
                  currentUser' = UserOf(inflight[i].token) /\ token' = token
            /\ (Answered(i, "profile", "status") \/ Answered(i, "profile", "error")) =>
                  currentUser' = NoUser /\ token' = NoToken
      ]_vars

\* The profile request of a stored token has just failed with a network error.
C6_Witness ==
    /\ last.op = "profile" /\ last.outcome = "error"
    /\ token = NoToken /\ currentUser = NoUser

\* C7: login returns true exactly on a success response, and then the token of the
\* returned user is stored and currentUser is that user; on a non-success status or a
\* network error it returns false and leaves the token and currentUser as they were.
C7_LoginOutcome ==
    [][last'.op = "login" =>
         IF last'.outcome = "ok"
         THEN /\ last'.result = TRUE
              /\ currentUser' \in Users
              /\ token' = TokenOf(currentUser')
         ELSE /\ last'.result = FALSE
              /\ token' = token
              /\ currentUser' = currentUser
      ]_vars

\* A login has just been refused and the session is anonymous, without a token.
C7_Witness ==
    /\ last.op = "login" /\ last.outcome = "status" /\ last.result = FALSE
    /\ currentUser = NoUser /\ token = NoToken

\* C8: the collection is empty right after clearNotifications, and no notification
\* that a clearNotifications call removed is in the collection afterwards.
C8_ClearedStayCleared ==
    /\ last.op = "clearNotifications" => notifications = << >>
    /\ \A k \in DOMAIN notifications : notifications[k].id \notin cleared

\* C9: markNotificationAsRead(id) keeps the length and the order, sets read on the
\* notifications with that id, leaves the others as they were, and a second call with
\* the same id changes nothing more.
C9_MarkReadIdempotent ==
    [][last'.op = "markNotificationAsRead" =>
         /\ Len(notifications') = Len(notifications)
         /\ \A k \in DOMAIN notifications :
               IF notifications[k].id = last'.arg
               THEN notifications'[k] = [notifications[k] EXCEPT !.read = TRUE]
               ELSE notifications'[k] = notifications[k]
         /\ MarkRead(notifications', last'.arg) = notifications'
      ]_vars

\* A notification has just been marked read next to one that is still unread.
C9_Witness ==
    /\ last.op = "markNotificationAsRead"
    /\ \E k \in DOMAIN notifications :
          notifications[k].id = last.arg /\ notifications[k].read
    /\ \E k \in DOMAIN notifications :
          notifications[k].id /= last.arg /\ ~notifications[k].read

\* The notifications a sale's line items trigger, in the order they are triggered.
RECURSIVE Triggered(_, _, _, _)
Triggered(ps, items, j, id) ==
    IF j > Len(items) THEN << >>
    ELSE LET type == Expected(ps, items, j)
         IN  IF type = "none" THEN Triggered(ps, items, j + 1, id)
             ELSE << [id |-> id, type |-> type, name |-> items[j].productId] >>
                  \o Triggered(ps, items, j + 1, id + 1)

Reverse(seq) == [k \in DOMAIN seq |-> seq[Len(seq) + 1 - k]]

\* C10: an acknowledged addSale leaves the notifications it triggered, newest first,
\* in front of the notifications that were in the collection, these in their order.
C10_Prepended ==
    [][\A i \in DOMAIN inflight :
         Answered(i, "addSale", "ok") =>
           LET new == Reverse(Triggered(inflight[i].products, inflight[i].saleData,
                                        1, nextId))
           IN  /\ Len(notifications') = Len(new) + Len(notifications)
               /\ \A k \in DOMAIN new :
                     /\ notifications'[k].id = new[k].id
                     /\ notifications'[k].type = new[k].type
                     /\ notifications'[k].message.name = new[k].name
               /\ SubSeq(notifications', Len(new) + 1, Len(notifications'))
                     = notifications
      ]_vars

\* Since the snapshot `old` was taken the log `cur` has only grown by sales that
\* addSale generated (ids >= 1; the sales a refresh fetches carry id 0): no refresh
\* has replaced the log in between.
GrownOnly(old, cur) ==
    /\ Len(old) <= Len(cur)
    /\ SubSeq(cur, 1, Len(old)) = old
    /\ \A k \in (Len(old) + 1)..Len(cur) : cur[k].id >= 1

\* C11: the sale log is append-only: every acknowledged addSale, with no refresh
\* between its call and its acknowledgement, leaves the sales that were in the log
\* in place and in order and adds exactly one new sale, the requested one, at the
\* end; this also when two addSale requests overlap and when no line item resolves.
C11_SaleLogAppendOnly ==
    [][\A i \in DOMAIN inflight :
         (Answered(i, "addSale", "ok") /\ GrownOnly(inflight[i].sales, sales)) =>
            sales' = Append(sales, NewSale(nextSaleId, inflight[i].saleData))
      ]_vars

\* The fetchData requests in flight.
Fetches(reqs) == { k \in DOMAIN reqs : reqs[k].kind \in {"fetchProducts", "fetchSales"} }

\* C12: a login or session restore that succeeds while a token is stored starts a
\* refresh with that token; the refresh replaces products by the fetched products and
\* then sales by the fetched sales, with no merge; a fetch answered with a non-success
\* status keeps the snapshot; a session step that leaves no token stored (logout
\* among them) starts no fetch and leaves both snapshots as they are.
C12_RefreshReplaces ==
    [][/\ (last'.op \in {"login", "profile"} /\ last'.outcome = "ok"
              /\ token' /= NoToken) =>
            /\ Len(inflight') = Len(inflight)
            /\ inflight'[Len(inflight')] = Req("fetchProducts", token')
            /\ products' = products /\ sales' = sales
       /\ (last'.op \in {"login", "profile", "logout"} /\ token' = NoToken) =>
            /\ Cardinality(Fetches(inflight')) = Cardinality(Fetches(inflight))
            /\ products' = products /\ sales' = sales
       /\ \A i \in DOMAIN inflight :
            /\ Answered(i, "fetchProducts", "ok") =>
                 /\ products' \in RemoteProducts /\ sales' = sales
                 /\ inflight'[Len(inflight')] = Req("fetchSales", inflight[i].token)
            /\ Answered(i, "fetchProducts", "status") =>
                 /\ products' = products /\ sales' = sales
                 /\ inflight'[Len(inflight')] = Req("fetchSales", inflight[i].token)
            /\ Answered(i, "fetchSales", "ok") =>
                 sales' \in RemoteSales /\ products' = products
            /\ Answered(i, "fetchSales", "status") =>
                 sales' = sales /\ products' = products
      ]_vars

\* A login's refresh has just replaced a sale log that held a locally recorded sale
\* by the fetched collection.
C12_Witness ==
    /\ last.op = "fetchSales" /\ last.outcome = "ok"
    /\ currentUser /= NoUser /\ token /= NoToken
    /\ products \in RemoteProducts
    /\ sales \in RemoteSales
    /\ nextSaleId > 1

\* C13: every row of the users table and of public.profiles has role 'admin' or
\* 'employee'; a Google login leaves a user row for its email in the table, creating
\* it when the email was not present; and every user object the google-login route
\* returns has role 'admin' or 'employee'.
C13_RolesValid ==
    /\ \A u \in users : u.role \in Roles
    /\ \A pr \in profiles : pr.role \in Roles
    /\ reply.route = "google-login" => \E u \in users : u.email = reply.email
    /\ (reply.route = "google-login" /\ reply.status = 200) => reply.role \in Roles

\* C14: session consistency: after every step currentUser is non-null only if a token
\* is stored; a profile response that finds no token stored, and a login response
\* that arrives right after a logout, leave currentUser null; and a restore that fails
\* for an old token leaves in place the different token a login has stored since.
C14_SessionConsistent ==
    [][/\ currentUser' /= NoUser => token' /= NoToken
       /\ \A i \in DOMAIN inflight, o \in Outcomes :
            /\ (Answered(i, "profile", o) /\ token = NoToken) => currentUser' = NoUser
            /\ (Answered(i, "login", o) /\ last.op = "logout") => currentUser' = NoUser
            /\ (Answered(i, "profile", o) /\ o /= "ok"
                   /\ token \notin {NoToken, inflight[i].token}) => token' = token
      ]_vars

====
